---- MODULE Spec2Model ----
(***************************************************************************)
(* shiplot: the destination registry (pathList), the transfer jobs of the  *)
(* Sower (enqueuePlotMove, enqueuePlotDownload, getDestinationPath) and    *)
(* the result byte of the TCP server's connection handler.                 *)
(*                                                                         *)
(* A path object is identified by a number in Paths; Nil is the nil        *)
(* pointer.  A job is one closure handed to the worker pool; the files it  *)
(* touches are its source file, <dst>/<name>.tmp and <dst>/<name> on the   *)
(* volume it obtained, and every job has a file name of its own.  Jobs     *)
(* numbers the jobs that exist at one time: once a job has ended and its   *)
(* connection handler has returned, its number is taken by the next file   *)
(* that is enqueued, and the record of the ended job is dropped.           *)
(*                                                                         *)
(* More specifications follow the parts of the program Spec takes in       *)
(* one step or leaves out: PoolSpec (NewSower's pool in every              *)
(* configuration), WireSpec (the request header between TcpClient and      *)
(* TcpServer, byte by byte, the download it starts and the source file of  *)
(* the uploading client), WatchSpec (the FsWatcher and the cancellation of *)
(* its context), CopySpec (io.Copy through the cancellable adapters, Read  *)
(* by Read), ShutdownSpec (the run loops, the counter of Sower.wg and the   *)
(* wait on it after the cancellation) and ListSpec (the pathList by        *)
(* itself, from Populate on, over directories whose free space changes).   *)
(***************************************************************************)
EXTENDS Integers, Sequences, FiniteSets, TLC

NumPaths == 2
NumJobs == 2
MaxFree == 2
MaxSize == 1

\* --maxThreads, "default is 4"
DefaultMaxThreads == 4

\* s.pool before ants.NewPool
NoPool == -1

Paths == 1..NumPaths
Jobs == 1..NumJobs
Nil == 0
NoFile == -1
Sizes == 1..MaxSize
FreeValues == 1..MaxFree
\* odd numbers are files of the staging watcher (enqueuePlotMove), even
\* numbers are connections of the TCP server (enqueuePlotDownload)
KindOf(j) == IF j % 2 = 1 THEN "move" ELSE "download"

VARIABLES
    pl,          \* the pathList: sequence of path objects
    available,   \* path.available
    usage,       \* path.usage.Free(), as recorded by the last du.NewDiskUsage
    maxThreads,  \* cfg.MaxThreads
    clientEnabled, \* cfg.Client.Enabled
    poolCap,     \* capacity of the ants pool
    pc,          \* position of each job's closure
    kind,        \* "move" (enqueuePlotMove) or "download" (enqueuePlotDownload)
    size,        \* info.Size() of the source, or the size of the wire header
    dstPath,     \* the job's dstPath variable
    srcFile,     \* the staging file of a move job exists
    tmpFile,     \* length of <dst>/<name>.tmp, NoFile when absent
    finalFile,   \* length of <dst>/<name>, NoFile when absent
    conn,        \* result bytes written to the job's connection, in order
    hpc,         \* position of handleRequest for the job's connection
    failures,    \* the steps of the job that failed
    evicted,     \* the paths getDestinationPath has called Remove on
    logged,      \* the job logged an error
    released,    \* number of SetAvailable(dstPath, true) calls of the job
    cname,       \* TcpClient.WritePlot: name, as bytes
    csize,       \* TcpClient.WritePlot: size
    cpc,         \* position of TcpClient.WritePlot
    cres,        \* readResult: <<bytes read, result[0]>>
    wire,        \* the bytes the client has written to the connection
    rd,          \* how many of them handleRequest has read
    fileName,    \* handleRequest: fileName
    usrc,        \* the source file of the uploading client exists
    ctxDone,     \* ctx.Done() is closed: the context has been cancelled
    staged,      \* the files in the staging directory
    watching,    \* the staging directory has been added to w.watcher
    wclosed,     \* w.watcher.Close() has been called
    events,      \* the Create events of w.watcher.Events not yet received
    runPc,       \* position of FsWatcher.Run
    listing,     \* Run: the entries of os.ReadDir not yet looked at
    loopPc,      \* position of FsWatcher.runLoop
    enq,         \* how many times the watcher has enqueued each file
    cpPc,        \* position of io.Copy(cw, cr)
    cpSrc,       \* bytes of the source not yet read
    cpBuf,       \* bytes io.Copy has read and not yet written
    cpWritten,   \* io.Copy: written
    wg,          \* Sower.wg: the counter of the sync.WaitGroup
    serverEnabled, \* cfg.Server.Enabled
    listening,   \* the listener of TcpServer.Run is open
    srvPc,       \* position of TcpServer.runLoop
    waitPc,      \* position of the caller that waits on Sower.wg at shutdown
    destinationPaths, \* cfg.DestinationPaths: the directory of each path
    disk,        \* the free space the storage layer reports for a directory
    connOpen     \* the server's end of the accepted connection is open

vars == <<pl, available, usage, maxThreads, clientEnabled, poolCap, pc, kind,
          size, dstPath, srcFile, tmpFile, finalFile, conn, hpc, failures,
          evicted, logged, released, cname, csize, cpc, cres, wire, rd,
          fileName, usrc, ctxDone, staged, watching, wclosed, events, runPc,
          listing, loopPc, enq, cpPc, cpSrc, cpBuf, cpWritten, wg,
          serverEnabled, listening, srvPc, waitPc, destinationPaths, disk,
          connOpen>>

cfg == <<maxThreads, clientEnabled, serverEnabled, destinationPaths>>
registry == <<pl, available, usage, evicted>>
files == <<srcFile, tmpFile, finalFile>>
\* the client's end of a connection and the request header on it
tcp == <<cname, csize, cpc, cres, wire, rd, fileName, usrc, connOpen>>
\* the staging directory and its FsWatcher
watch == <<staged, watching, wclosed, events, runPc, listing, loopPc, enq>>
\* one io.Copy through the cancellable adapters
cp == <<cpPc, cpSrc, cpBuf, cpWritten>>
\* TcpServer.Run and runLoop, and the wait on the completion barrier
shut == <<listening, srvPc, waitPc>>
\* what the closures and the connection handler leave alone
aside == <<ctxDone, watch, cp, shut>>

----
Min(a, b) == IF a < b THEN a ELSE b

Max(a, b) == IF a > b THEN a ELSE b

----
(* pathList *)

Swap(l, i, j) == [l EXCEPT ![i] = l[j], ![j] = l[i]]

LessAscending(l, u, i, j) == u[l[i]] < u[l[j]]

Less(l, u, i, j) == u[l[i]] > u[l[j]]

RECURSIVE insertionSortInner(_, _, _)
insertionSortInner(l, u, j) ==
    IF j > 1 /\ Less(l, u, j, j - 1)
    THEN insertionSortInner(Swap(l, j, j - 1), u, j - 1)
    ELSE l

RECURSIVE insertionSortFrom(_, _, _)
insertionSortFrom(l, u, i) ==
    IF i > Len(l) THEN l
    ELSE insertionSortFrom(insertionSortInner(l, u, i), u, i + 1)

\* sort.Sort(pl): below 12 elements pdqsort is this insertion sort
Sort(l, u) == insertionSortFrom(l, u, 2)

RECURSIVE firstAvailableFrom(_, _, _)
firstAvailableFrom(l, av, i) ==
    IF i > Len(l) THEN Nil
    ELSE IF av[l[i]] THEN l[i]
    ELSE firstAvailableFrom(l, av, i + 1)

\* the path FirstAvailable returns from the sorted list
FirstAvailable(l, av) == firstAvailableFrom(l, av, 1)

Index(l, p) ==
    IF \E i \in 1..Len(l) : l[i] = p
    THEN CHOOSE i \in 1..Len(l) : l[i] = p /\ \A k \in 1..(i - 1) : l[k] # p
    ELSE 0

RemoveAt(l, i) == [k \in 1..(Len(l) - 1) |-> IF k < i THEN l[k] ELSE l[k + 1]]

\* Remove works on newList, a nil slice that copy() leaves empty, and assigns
\* the result to its own receiver variable: *pl is what it was
Remove(l, p) ==
    LET newList == <<>>
        index == Index(newList, p)
        result == IF index >= 1 THEN RemoveAt(newList, index) ELSE newList
    IN  l

getPoolSizeNoFloor(mt, len, client) ==
    IF client THEN mt
    ELSE IF mt = 0 THEN len ELSE IF len < mt THEN len ELSE mt

\* Sower.getPoolSize: cfg.MaxThreads as it is when the TCP client is enabled,
\* otherwise the number of paths when MaxThreads is 0 or larger than it, and 1
\* when that is 0
getPoolSize(mt, len, client) ==
    IF client THEN mt
    ELSE LET poolSize == IF mt = 0 THEN len ELSE IF len < mt THEN len ELSE mt
         IN  IF poolSize = 0 THEN 1 ELSE poolSize

----
\* no client is connected
\* the directories are named by numbers
Dirs == 1..NumPaths

\* path.name
nameOf(p) == destinationPaths[p]

\* every destination path is a directory of its own; the free space that a
\* du.NewDiskUsage finds is drawn at the call
DistinctDirs ==
    /\ destinationPaths = [i \in 1..NumPaths |-> i]
    /\ disk = [d \in Dirs |-> MaxFree]

NoConnection ==
    /\ cname = <<>>
    /\ csize = 0
    /\ cpc = "c_none"
    /\ cres = <<0, 0>>
    /\ wire = <<>>
    /\ rd = 0
    /\ fileName = <<>>
    /\ usrc = FALSE
    /\ connOpen = FALSE

\* the context is not cancelled, and no FsWatcher runs
NoWatcher ==
    /\ ctxDone = FALSE
    /\ staged = {}
    /\ watching = FALSE
    /\ wclosed = FALSE
    /\ events = <<>>
    /\ runPc = "r_none"
    /\ listing = <<>>
    /\ loopPc = "l_none"
    /\ enq = <<>>

\* no copy is followed step by step
NoCopy ==
    /\ cpPc = "cp_none"
    /\ cpSrc = 0
    /\ cpBuf = 0
    /\ cpWritten = 0

\* the loop of the TCP server is not followed, and nothing waits on Sower.wg
NoShutdown ==
    /\ listening = FALSE
    /\ srvPc = "s_none"
    /\ waitPc = "w_none"

Init ==
    /\ DistinctDirs
    /\ pl = [i \in 1..NumPaths |-> i]
    /\ available = [p \in Paths |-> TRUE]
    /\ usage \in [Paths -> FreeValues]
    /\ maxThreads = DefaultMaxThreads
    \* --client.enabled, "default is false": the files of the staging watcher
    \* are moved to the destination paths of this process
    /\ clientEnabled = FALSE
    /\ poolCap = getPoolSize(maxThreads, NumPaths, clientEnabled)
    /\ pc = [j \in Jobs |-> "queued"]
    /\ kind = [j \in Jobs |-> "none"]
    /\ size = [j \in Jobs |-> 0]
    /\ dstPath = [j \in Jobs |-> Nil]
    /\ srcFile = [j \in Jobs |-> FALSE]
    /\ tmpFile = [j \in Jobs |-> NoFile]
    /\ finalFile = [j \in Jobs |-> NoFile]
    /\ conn = [j \in Jobs |-> <<>>]
    /\ hpc = [j \in Jobs |-> "h_enqueue"]
    /\ failures = [j \in Jobs |-> {}]
    /\ evicted = {}
    /\ logged = [j \in Jobs |-> FALSE]
    /\ released = [j \in Jobs |-> 0]
    /\ NoConnection
    /\ NoWatcher
    /\ NoCopy
    \* the connections of the download jobs are those of the TCP server; the
    \* goroutines of the run loops are not followed, wg counts the closures
    /\ wg = 0
    /\ serverEnabled = TRUE
    /\ NoShutdown

Running == Cardinality({j \in Jobs : pc[j] \notin {"queued", "done"}})

\* dst, the *os.File of the temp file, is nil exactly when os.Create failed;
\* the names of the jobs differ, so up to the removal of the temp file that is
\* when no temp file of the job exists
dstIsNil(j) == tmpFile[j] = NoFile

\* s.pool.Submit: blocks until a worker is free, then the closure runs and
\* enqueuePlotMove / enqueuePlotDownload returns nil.  The size is that of the
\* staging file or of the wire header
Submit(j) ==
    /\ pc[j] \in {"queued", "done"}
    /\ hpc[j] # "h_result"
    /\ Running < poolCap
    /\ \E sz \in Sizes : size' = [size EXCEPT ![j] = sz]
    /\ LET k == KindOf(j)
       IN  /\ kind' = [kind EXCEPT ![j] = k]
           /\ pc' = [pc EXCEPT ![j] = IF k = "move" THEN "open" ELSE "gd_first"]
           /\ srcFile' = [srcFile EXCEPT ![j] = (k = "move")]
           /\ hpc' = [hpc EXCEPT ![j] = IF k = "download" THEN "h_result" ELSE "h_enqueue"]
    /\ dstPath' = [dstPath EXCEPT ![j] = Nil]
    /\ tmpFile' = [tmpFile EXCEPT ![j] = NoFile]
    /\ finalFile' = [finalFile EXCEPT ![j] = NoFile]
    /\ conn' = [conn EXCEPT ![j] = <<>>]
    /\ failures' = [failures EXCEPT ![j] = {}]
    /\ logged' = [logged EXCEPT ![j] = FALSE]
    /\ released' = [released EXCEPT ![j] = 0]
    /\ wg' = wg + 1
    /\ UNCHANGED <<registry, cfg, disk, aside, tcp, poolCap>>

OpenSourceGoesOn(j) ==
    /\ pc[j] = "open"
    /\ \E ok \in BOOLEAN :
        /\ pc' = [pc EXCEPT ![j] = "gd_first"]
        /\ failures' = [failures EXCEPT ![j] = IF ok THEN @ ELSE {"open_failed"}]
        /\ logged' = [logged EXCEPT ![j] = @ \/ ~ok]
    /\ UNCHANGED <<registry, cfg, disk, aside, wg, tcp, poolCap, kind, size, dstPath,
                   files, conn, hpc, released>>

\* os.Open and src.Stat of enqueuePlotMove: on failure the closure returns
OpenSource(j) ==
    /\ pc[j] = "open"
    /\ \E ok \in BOOLEAN :
        IF ok
        THEN /\ pc' = [pc EXCEPT ![j] = "gd_first"]
             /\ UNCHANGED <<failures, logged, wg>>
        ELSE /\ pc' = [pc EXCEPT ![j] = "done"]
             /\ failures' = [failures EXCEPT ![j] = {"open_failed"}]
             /\ logged' = [logged EXCEPT ![j] = TRUE]
             /\ wg' = wg - 1
    /\ UNCHANGED <<registry, cfg, disk, aside, tcp, poolCap, kind, size, dstPath,
                   files, conn, hpc, released>>

\* getDestinationPath: dstPath = s.paths.FirstAvailable(), under pathListMutex
SelectAndClaim(j) ==
    /\ pc[j] = "gd_first"
    /\ LET sorted == Sort(pl, usage)
           p == FirstAvailable(sorted, available)
       IN  /\ pl' = sorted
           /\ dstPath' = [dstPath EXCEPT ![j] = p]
           /\ IF p = Nil
              THEN /\ pc' = [pc EXCEPT ![j] = "gd_sleep"]
                   /\ UNCHANGED available
              ELSE /\ pc' = [pc EXCEPT ![j] = "gd_check"]
                   /\ available' = [available EXCEPT ![p] = FALSE]
    /\ UNCHANGED <<usage, evicted, cfg, disk, aside, wg, tcp, poolCap, kind, size,
                   files, conn, hpc, failures, logged, released>>

\* getDestinationPath: time.Sleep(10s) and continue
Sleep(j) ==
    /\ pc[j] = "gd_sleep"
    /\ pc' = [pc EXCEPT ![j] = "gd_first"]
    /\ UNCHANGED <<registry, cfg, disk, aside, wg, tcp, poolCap, kind, size, dstPath,
                   files, conn, hpc, failures, logged, released>>

\* getDestinationPath: uint64(fileSize) < dstPath.usage.Free()
HasSpace(fileSize, free) == fileSize < free

\* getDestinationPath: break with the claimed path (the closure then defers
\* SetAvailable), or go on to remove it
CheckSpace(j) ==
    /\ pc[j] = "gd_check"
    /\ pc' = [pc EXCEPT ![j] = IF HasSpace(size[j], usage[dstPath[j]])
                               THEN "create" ELSE "gd_remove"]
    /\ UNCHANGED <<registry, cfg, disk, aside, wg, tcp, poolCap, kind, size, dstPath,
                   files, conn, hpc, failures, logged, released>>

\* getDestinationPath: s.paths.Remove(dstPath)
RemovePath(j) ==
    /\ pc[j] = "gd_remove"
    /\ pl' = Remove(pl, dstPath[j])
    /\ evicted' = evicted \cup {dstPath[j]}
    /\ pc' = [pc EXCEPT ![j] = "gd_tune"]
    /\ UNCHANGED <<available, usage, cfg, disk, aside, wg, tcp, poolCap, kind, size,
                   dstPath, files, conn, hpc, failures, logged, released>>

\* getDestinationPath: size := s.getPoolSize(); s.pool.Tune(size) when it differs
TunePool(j) ==
    /\ pc[j] = "gd_tune"
    /\ LET sz == getPoolSize(maxThreads, Len(pl), clientEnabled)
       IN  poolCap' = IF poolCap # sz THEN sz ELSE poolCap
    /\ pc' = [pc EXCEPT ![j] = "gd_first"]
    /\ UNCHANGED <<registry, cfg, disk, aside, wg, tcp, kind, size, dstPath, files,
                   conn, hpc, failures, logged, released>>

\* os.Create(dstFullName + ".tmp"): the download closure reports the failure
\* and returns, the move closure logs it and goes on with dst == nil
CreateTemp(j) ==
    /\ pc[j] = "create"
    /\ \E ok \in BOOLEAN :
        IF ok
        THEN /\ tmpFile' = [tmpFile EXCEPT ![j] = 0]
             /\ pc' = [pc EXCEPT ![j] = "copy"]
             /\ UNCHANGED <<conn, failures, logged>>
        ELSE /\ logged' = [logged EXCEPT ![j] = TRUE]
             /\ failures' = [failures EXCEPT ![j] = {"create_failed"}]
             /\ conn' = [conn EXCEPT ![j] =
                            IF kind[j] = "download" THEN Append(@, 0) ELSE @]
             /\ pc' = [pc EXCEPT ![j] =
                            IF kind[j] = "download" THEN "deferred" ELSE "copy"]
             /\ UNCHANGED tmpFile
    /\ UNCHANGED <<registry, cfg, disk, aside, wg, tcp, poolCap, kind, size, dstPath,
                   srcFile, finalFile, hpc, released>>

\* what io.Copy(cw, cr) can return: any number of bytes, with or without an
\* error; into a nil *os.File nothing is written
CopyResults(j) ==
    {r \in [written : 0..MaxSize, err : BOOLEAN] : dstIsNil(j) => r.written = 0}

MoveKeepsTempOnMismatch(j, r) == IF dstIsNil(j) THEN tmpFile[j] ELSE r.written

\* enqueuePlotMove: the temp file after io.Copy and the size check, which
\* removes it when written differs from info.Size()
MoveTempAfterCopy(j, r) ==
    IF r.written # size[j] THEN NoFile
    ELSE IF dstIsNil(j) THEN tmpFile[j] ELSE r.written

\* enqueuePlotMove, io.Copy and what follows it: a copy error is logged, a
\* size mismatch removes the temp file and is logged, and the closure goes on
\* to the rename either way.  Both log calls evaluate dst.Name() first, which
\* panics on a nil dst: the closure ends there and its deferred SetAvailable
\* runs
CopyMove(j) ==
    /\ pc[j] = "copy"
    /\ kind[j] = "move"
    /\ \E r \in CopyResults(j) :
        LET mismatch == r.written # size[j]
            panicAtCopyLog == r.err /\ dstIsNil(j)
            panicAtSizeLog == ~panicAtCopyLog /\ mismatch /\ dstIsNil(j)
        IN  /\ tmpFile' = [tmpFile EXCEPT ![j] =
                  IF panicAtCopyLog THEN @ ELSE MoveTempAfterCopy(j, r)]
            /\ logged' = [logged EXCEPT ![j] =
                  @ \/ ((r.err \/ mismatch) /\ ~dstIsNil(j))]
            /\ failures' = [failures EXCEPT ![j] =
                  @ \cup (IF r.err THEN {"copy_error"} ELSE {})
                    \cup (IF mismatch /\ ~panicAtCopyLog
                          THEN {"size_mismatch"} ELSE {})]
            /\ pc' = [pc EXCEPT ![j] =
                  IF panicAtCopyLog \/ panicAtSizeLog THEN "deferred" ELSE "rename"]
    /\ UNCHANGED <<registry, cfg, disk, aside, wg, tcp, poolCap, kind, size, dstPath,
                   srcFile, finalFile, conn, hpc, released>>

\* enqueuePlotDownload, io.Copy and what follows it: a copy error writes the
\* failure byte and returns; a size mismatch writes the failure byte, removes
\* the temp file and returns; otherwise writeSuccess, before the rename
CopyDownload(j) ==
    /\ pc[j] = "copy"
    /\ kind[j] = "download"
    /\ \E r \in CopyResults(j) :
        IF r.err
        THEN /\ conn' = [conn EXCEPT ![j] = Append(@, 0)]
             /\ tmpFile' = [tmpFile EXCEPT ![j] = r.written]
             /\ failures' = [failures EXCEPT ![j] = @ \cup {"copy_error"}]
             /\ logged' = [logged EXCEPT ![j] = TRUE]
             /\ pc' = [pc EXCEPT ![j] = "deferred"]
        ELSE IF r.written # size[j]
        THEN /\ conn' = [conn EXCEPT ![j] = Append(@, 0)]
             /\ tmpFile' = [tmpFile EXCEPT ![j] = NoFile]
             /\ failures' = [failures EXCEPT ![j] = @ \cup {"size_mismatch"}]
             /\ logged' = [logged EXCEPT ![j] = TRUE]
             /\ pc' = [pc EXCEPT ![j] = "deferred"]
        ELSE /\ conn' = [conn EXCEPT ![j] = Append(@, 1)]
             /\ tmpFile' = [tmpFile EXCEPT ![j] = r.written]
             /\ pc' = [pc EXCEPT ![j] = "rename"]
             /\ UNCHANGED <<failures, logged>>
    /\ UNCHANGED <<registry, cfg, disk, aside, wg, tcp, poolCap, kind, size, dstPath,
                   srcFile, finalFile, hpc, released>>

\* close the files and os.Rename(tmp, final): fails when the temp file is not
\* there, and may fail otherwise.  The download closure reports the failure
\* and returns; the move closure logs it and goes on to delete the source
Rename(j) ==
    /\ pc[j] = "rename"
    /\ \E ok \in BOOLEAN :
        IF ok /\ tmpFile[j] # NoFile
        THEN /\ finalFile' = [finalFile EXCEPT ![j] = tmpFile[j]]
             /\ tmpFile' = [tmpFile EXCEPT ![j] = NoFile]
             /\ pc' = [pc EXCEPT ![j] =
                          IF kind[j] = "move" THEN "remove_src" ELSE "release"]
             /\ UNCHANGED <<conn, logged, failures>>
        ELSE /\ logged' = [logged EXCEPT ![j] = TRUE]
             /\ failures' = [failures EXCEPT ![j] = @ \cup {"rename_failed"}]
             /\ conn' = [conn EXCEPT ![j] =
                            IF kind[j] = "download" THEN Append(@, 0) ELSE @]
             /\ pc' = [pc EXCEPT ![j] =
                          IF kind[j] = "move" THEN "remove_src" ELSE "deferred"]
             /\ UNCHANGED <<tmpFile, finalFile>>
    /\ UNCHANGED <<registry, cfg, disk, aside, wg, tcp, poolCap, kind, size, dstPath,
                   srcFile, hpc, released>>

\* enqueuePlotMove: os.Remove(src.Name())
RemoveSource(j) ==
    /\ pc[j] = "remove_src"
    /\ srcFile' = [srcFile EXCEPT ![j] = FALSE]
    /\ pc' = [pc EXCEPT ![j] = "release"]
    /\ UNCHANGED <<registry, cfg, disk, aside, wg, tcp, poolCap, kind, size, dstPath,
                   tmpFile, finalFile, conn, hpc, failures, logged, released>>

UpdateKeepsUsage(l, av, u, p, a, free) ==
    LET av2 == [av EXCEPT ![p] = a]
    IN  <<Sort(l, u), av2, u>>

UpdateKeepsFlag(l, av, u, p, a, free) ==
    LET u2 == [u EXCEPT ![p] = free]
    IN  <<Sort(l, u2), av, u2>>

\* pathList.Update(path, available), called SetAvailable by the closures: set
\* the flag, take a new du.NewDiskUsage (free is what the disk reports) and sort
Update(l, av, u, p, a, free) ==
    LET av2 == [av EXCEPT ![p] = a]
        u2 == [u EXCEPT ![p] = free]
    IN  <<Sort(l, u2), av2, u2>>

\* the closure's s.paths.SetAvailable(dstPath, true) at its end
Release(j) ==
    /\ pc[j] = "release"
    /\ \E free \in FreeValues :
        LET r == Update(pl, available, usage, dstPath[j], TRUE, free)
        IN  /\ pl' = r[1]
            /\ available' = r[2]
            /\ usage' = r[3]
    /\ released' = [released EXCEPT ![j] = @ + 1]
    /\ pc' = [pc EXCEPT ![j] = "deferred"]
    /\ UNCHANGED <<evicted, cfg, disk, aside, wg, tcp, poolCap, kind, size, dstPath,
                   files, conn, hpc, failures, logged>>

DeferredReleaseSkipped(j) ==
    /\ pc[j] = "deferred"
    /\ pc' = [pc EXCEPT ![j] = "done"]
    /\ dstPath' = [dstPath EXCEPT ![j] = Nil]
    /\ wg' = wg - 1
    /\ UNCHANGED <<registry, released, cfg, disk, aside, tcp, poolCap, kind, size,
                   files, conn, hpc, failures, logged>>

\* defer s.paths.SetAvailable(dstPath, true): runs on every return of the
\* closure after getDestinationPath, and on a panic; the closure and its
\* dstPath variable are gone after it
DeferredRelease(j) ==
    /\ pc[j] = "deferred"
    /\ \E free \in FreeValues :
        LET r == Update(pl, available, usage, dstPath[j], TRUE, free)
        IN  /\ pl' = r[1]
            /\ available' = r[2]
            /\ usage' = r[3]
    /\ released' = [released EXCEPT ![j] = @ + 1]
    /\ pc' = [pc EXCEPT ![j] = "done"]
    /\ dstPath' = [dstPath EXCEPT ![j] = Nil]
    /\ wg' = wg - 1
    /\ UNCHANGED <<evicted, cfg, disk, aside, tcp, poolCap, kind, size, files, conn,
                   hpc, failures, logged>>

\* handleRequest: enqueuePlotDownload has returned nil (the closure was handed
\* to a worker), so writeSuccess(ctx, conn)
HandleResult(j) ==
    /\ hpc[j] = "h_result"
    /\ conn' = [conn EXCEPT ![j] = Append(@, 1)]
    /\ hpc' = [hpc EXCEPT ![j] = "h_done"]
    /\ UNCHANGED <<registry, cfg, disk, aside, wg, tcp, poolCap, pc, kind, size,
                   dstPath, files, failures, logged, released>>

JobStep(j) ==
    \/ Submit(j)
    \/ OpenSource(j)
    \/ SelectAndClaim(j)
    \/ Sleep(j)
    \/ CheckSpace(j)
    \/ RemovePath(j)
    \/ TunePool(j)
    \/ CreateTemp(j)
    \/ CopyMove(j)
    \/ CopyDownload(j)
    \/ Rename(j)
    \/ RemoveSource(j)
    \/ Release(j)
    \/ DeferredRelease(j)

Next == \E j \in Jobs : JobStep(j) \/ HandleResult(j)

Spec == Init /\ [][Next]_vars

\* the steps of a job number that is used for one file only
JobStepOnce(j) == pc[j] # "done" /\ JobStep(j)

NextOnce == \E j \in Jobs : JobStepOnce(j)

\* the closures of NumJobs files, enqueued once each: every closure that has
\* been started keeps running
FairSpec ==
    /\ Init
    /\ [][NextOnce]_vars
    /\ \A j \in Jobs : WF_vars(JobStepOnce(j))

\* the closures of the files that keep arriving: the job numbers are reused,
\* and every closure that has been started keeps running
StreamFairSpec ==
    /\ Init
    /\ [][Next]_vars
    /\ \A j \in Jobs : WF_vars(JobStep(j))

TypeOK ==
    /\ pc \in [Jobs -> {"queued", "open", "gd_first", "gd_sleep", "gd_check",
                        "gd_remove", "gd_tune", "create", "copy", "rename",
                        "remove_src", "release", "deferred", "done",
                        "rejected"}]
    /\ dstPath \in [Jobs -> Paths \cup {Nil}]
    /\ released \in [Jobs -> 0..2]

----
(* The request header: TcpClient.WritePlot and TcpServer.handleRequest on one *)
(* connection *)

MaxStem == 1

\* the job number of the connection
WireJob == 2

\* ".plot"
PlotSuffix == <<46, 112, 108, 111, 116>>
\* ".tmp"
TmpSuffix == <<46, 116, 109, 112>>

\* a name of n letters
Stem(n) == [i \in 1..n |-> 97]

\* "../"
ParentPrefix == <<46, 46, 47>>

\* the names the client is called with: short ones, the longest name the length
\* byte holds (255 bytes) and one byte more, with the plot suffix, names
\* without it, and a name with a parent directory in it
Names ==
    {Stem(n) \o PlotSuffix : n \in (0..MaxStem) \cup {250, 251}}
        \cup {Stem(n) \o TmpSuffix : n \in 0..MaxStem}
        \cup {Stem(n) : n \in 0..MaxStem}
        \cup {ParentPrefix \o Stem(1) \o PlotSuffix}

\* the sizes the client is called with
WireSizes == {0, 1, 255, 256, 65537, 2147483647}

byte7(n) == n % 128

\* byte(len(name)): the conversion of an int to a byte
byte(n) == n % 256

RECURSIVE putUint(_, _)
putUint(v, n) == IF n = 0 THEN <<>> ELSE <<v % 256>> \o putUint(v \div 256, n - 1)

\* binary.LittleEndian.PutUint64
PutUint64(v) == putUint(v, 8)

RECURSIVE uintFrom(_, _)
uintFrom(b, i) == IF i > Len(b) THEN 0 ELSE b[i] + 256 * uintFrom(b, i + 1)

\* binary.LittleEndian.Uint64
Uint64(b) == uintFrom(b, 1)

\* strings.HasSuffix
HasSuffix(str, suffix) ==
    /\ Len(str) >= Len(suffix)
    /\ SubSeq(str, Len(str) - Len(suffix) + 1, Len(str)) = suffix

\* WritePlot has returned, and its deferred conn.Close() has run
clientClosed == cpc \in {"c_ok", "c_err"}

\* the bytes of the connection handleRequest has not read yet
unread == SubSeq(wire, rd + 1, Len(wire))

\* one cw.Write of WritePlot: the bytes are on the connection, or the write
\* fails and WritePlot returns the error
clientWrite(bytes, next) ==
    \E ok \in BOOLEAN :
        IF ok
        THEN /\ wire' = wire \o bytes
             /\ cpc' = next
        ELSE /\ cpc' = "c_err"
             /\ UNCHANGED wire

\* writeFileName: cw.Write([]byte{fileNameSizeByte})
WriteFileNameSize ==
    /\ cpc = "c_namesize"
    /\ clientWrite(<<byte(Len(cname))>>, "c_name")
    /\ UNCHANGED <<registry, cfg, disk, aside, wg, poolCap, pc, kind, size, dstPath,
                   files, conn, hpc, failures, logged, released, usrc, connOpen, cname, csize,
                   cres, rd, fileName>>

\* writeFileName: cw.Write(fileNameBytes)
WriteFileName ==
    /\ cpc = "c_name"
    /\ clientWrite(cname, "c_size")
    /\ UNCHANGED <<registry, cfg, disk, aside, wg, poolCap, pc, kind, size, dstPath,
                   files, conn, hpc, failures, logged, released, usrc, connOpen, cname, csize,
                   cres, rd, fileName>>

\* writeFileSize
WriteFileSize ==
    /\ cpc = "c_size"
    /\ clientWrite(PutUint64(csize), "c_body")
    /\ UNCHANGED <<registry, cfg, disk, aside, wg, poolCap, pc, kind, size, dstPath,
                   files, conn, hpc, failures, logged, released, usrc, connOpen, cname, csize,
                   cres, rd, fileName>>

\* writePlot: io.Copy of the file to the connection (the bytes of the file are
\* not kept in wire, which holds the header)
WritePlotBody ==
    /\ cpc = "c_body"
    /\ clientWrite(<<>>, "c_result")
    /\ UNCHANGED <<registry, cfg, disk, aside, wg, poolCap, pc, kind, size, dstPath,
                   files, conn, hpc, failures, logged, released, usrc, connOpen, cname, csize,
                   cres, rd, fileName>>

readResultOnRead(n, result) == n = 1

\* readResult: result[0] == 1, whatever cr.Read returned
readResult(n, result) == result[1] = 1

\* readResult and the end of WritePlot: cr.Read(result) takes the first byte
\* the server wrote, or returns without one when the connection has ended;
\* result is a fresh buffer, 0 at first.  WritePlot returns nil (c_ok) or the
\* error "server returned failure"
ReadResult ==
    /\ cpc = "c_result"
    /\ \E n \in {0, 1} :
        /\ n = 1 => conn[WireJob] # <<>>
        /\ LET result == IF n = 1 THEN <<conn[WireJob][1]>> ELSE <<0>>
           IN  /\ cres' = <<n, result[1]>>
               /\ cpc' = IF readResult(n, result) THEN "c_ok" ELSE "c_err"
    /\ UNCHANGED <<registry, cfg, disk, aside, wg, poolCap, pc, kind, size, dstPath,
                   files, conn, hpc, failures, logged, released, usrc, connOpen, cname, csize,
                   wire, rd, fileName>>

\* enqueuePlotUpload: WritePlot has returned nil, so src.Close() and
\* os.Remove(name); after an error of WritePlot the closure returns before
UploadRemoveSource ==
    /\ cpc = "c_ok"
    /\ usrc
    /\ usrc' = FALSE
    /\ UNCHANGED <<registry, cfg, disk, aside, wg, poolCap, pc, kind, size, dstPath,
                   files, conn, hpc, failures, logged, released, cname, csize,
                   cpc, cres, wire, rd, fileName, connOpen>>

readFileNameAnySuffix(bytes, eof) ==
    IF Len(bytes) >= 1 /\ Len(bytes) >= 1 + bytes[1]
    THEN [state |-> "ok", name |-> SubSeq(bytes, 2, 1 + bytes[1]),
          n |-> 1 + bytes[1]]
    ELSE [state |-> IF eof THEN "err" ELSE "wait", name |-> <<>>,
          n |-> Len(bytes)]

\* readFileName on the unread bytes: io.ReadFull of the length byte and of
\* that many bytes, then the suffix check.  ReadFull waits for its bytes and
\* fails when the connection ends before them
readFileName(bytes, eof) ==
    IF Len(bytes) >= 1 /\ Len(bytes) >= 1 + bytes[1]
    THEN LET name == SubSeq(bytes, 2, 1 + bytes[1])
         IN  [state |-> IF HasSuffix(name, PlotSuffix) THEN "ok" ELSE "err",
              name |-> IF HasSuffix(name, PlotSuffix) THEN name ELSE <<>>,
              n |-> 1 + bytes[1]]
    ELSE [state |-> IF eof THEN "err" ELSE "wait", name |-> <<>>,
          n |-> Len(bytes)]

\* readFileSize on the unread bytes: io.ReadFull of 8 bytes
readFileSize(bytes, eof) ==
    IF Len(bytes) >= 8
    THEN [state |-> "ok", size |-> Uint64(SubSeq(bytes, 1, 8)), n |-> 8]
    ELSE [state |-> IF eof THEN "err" ELSE "wait", size |-> 0, n |-> Len(bytes)]

\* handleRequest: readFileName; on an error writeFail and return
HandleReadFileName(j) ==
    /\ hpc[j] = "h_name"
    /\ LET r == readFileName(unread, clientClosed)
       IN  /\ r.state # "wait"
           /\ rd' = rd + r.n
           /\ fileName' = r.name
           /\ IF r.state = "ok"
              THEN /\ hpc' = [hpc EXCEPT ![j] = "h_size"]
                   /\ UNCHANGED <<conn, logged>>
              ELSE /\ hpc' = [hpc EXCEPT ![j] = "h_done"]
                   /\ conn' = [conn EXCEPT ![j] = Append(@, 0)]
                   /\ logged' = [logged EXCEPT ![j] = TRUE]
    /\ UNCHANGED <<registry, cfg, disk, aside, wg, poolCap, pc, kind, size, dstPath,
                   files, failures, released, usrc, connOpen, cname, csize, cpc, cres, wire>>

\* handleRequest: readFileSize; on an error writeFail and return
HandleReadFileSize(j) ==
    /\ hpc[j] = "h_size"
    /\ LET r == readFileSize(unread, clientClosed)
       IN  /\ r.state # "wait"
           /\ rd' = rd + r.n
           /\ IF r.state = "ok"
              THEN /\ hpc' = [hpc EXCEPT ![j] = "h_enqueue"]
                   /\ size' = [size EXCEPT ![j] = r.size]
                   /\ UNCHANGED <<conn, logged>>
              ELSE /\ hpc' = [hpc EXCEPT ![j] = "h_done"]
                   /\ conn' = [conn EXCEPT ![j] = Append(@, 0)]
                   /\ logged' = [logged EXCEPT ![j] = TRUE]
                   /\ UNCHANGED size
    /\ UNCHANGED <<registry, cfg, disk, aside, wg, poolCap, pc, kind, dstPath, files,
                   failures, released, usrc, connOpen, cname, csize, cpc, cres, wire,
                   fileName>>

\* handleRequest: s.sower.enqueuePlotDownload(ctx, fileName, fileSize, conn,
\* conn), which returns nil once a worker has taken the closure
HandleEnqueue(j) ==
    /\ hpc[j] = "h_enqueue"
    /\ pc[j] = "queued"
    /\ Running < poolCap
    /\ kind' = [kind EXCEPT ![j] = "download"]
    /\ pc' = [pc EXCEPT ![j] = "gd_first"]
    /\ hpc' = [hpc EXCEPT ![j] = "h_result"]
    /\ wg' = wg + 1
    /\ UNCHANGED <<registry, cfg, disk, aside, tcp, poolCap, size, dstPath, files,
                   conn, failures, logged, released>>

\* enqueuePlotDownload, io.Copy from the connection: it returns without an
\* error at the end of the stream only, that is once the client has closed
WireCopyDownload(j) ==
    /\ CopyDownload(j)
    /\ clientClosed \/ "copy_error" \in failures'[j]

\* a client calls WritePlot with a name and a size, and the server has
\* accepted its connection
WireInit ==
    /\ DistinctDirs
    /\ pl = [i \in 1..NumPaths |-> i]
    /\ available = [p \in Paths |-> TRUE]
    /\ usage \in [Paths -> FreeValues]
    /\ maxThreads = DefaultMaxThreads
    /\ clientEnabled = FALSE
    /\ poolCap = getPoolSize(maxThreads, NumPaths, clientEnabled)
    /\ pc = [j \in Jobs |-> "queued"]
    /\ kind = [j \in Jobs |-> "none"]
    /\ size = [j \in Jobs |-> 0]
    /\ dstPath = [j \in Jobs |-> Nil]
    /\ srcFile = [j \in Jobs |-> FALSE]
    /\ tmpFile = [j \in Jobs |-> NoFile]
    /\ finalFile = [j \in Jobs |-> NoFile]
    /\ conn = [j \in Jobs |-> <<>>]
    /\ hpc = [j \in Jobs |-> IF j = WireJob THEN "h_name" ELSE "h_enqueue"]
    /\ failures = [j \in Jobs |-> {}]
    /\ evicted = {}
    /\ logged = [j \in Jobs |-> FALSE]
    /\ released = [j \in Jobs |-> 0]
    /\ cname \in Names
    /\ csize \in WireSizes
    /\ cpc = "c_namesize"
    /\ cres = <<0, 0>>
    /\ wire = <<>>
    /\ rd = 0
    /\ fileName = <<>>
    /\ usrc = TRUE
    /\ connOpen = TRUE
    /\ NoWatcher
    /\ NoCopy
    /\ wg = 0
    /\ serverEnabled = TRUE
    /\ NoShutdown

WireNext ==
    \/ WriteFileNameSize
    \/ WriteFileName
    \/ WriteFileSize
    \/ WritePlotBody
    \/ ReadResult
    \/ UploadRemoveSource
    \/ HandleReadFileName(WireJob)
    \/ HandleReadFileSize(WireJob)
    \/ HandleEnqueue(WireJob)
    \/ SelectAndClaim(WireJob)
    \/ Sleep(WireJob)
    \/ CheckSpace(WireJob)
    \/ RemovePath(WireJob)
    \/ TunePool(WireJob)
    \/ CreateTemp(WireJob)
    \/ WireCopyDownload(WireJob)
    \/ Rename(WireJob)
    \/ Release(WireJob)
    \/ DeferredRelease(WireJob)
    \/ HandleResult(WireJob)

WireSpec == WireInit /\ [][WireNext]_vars

\* the client, the handler and the closure of the connection keep running
WireFairSpec == WireSpec /\ WF_vars(WireNext)

----
(* FsWatcher: Run and runLoop on one staging directory *)

NumFiles == 3

Files == 1..NumFiles

\* strings.HasSuffix(name, ".plot") for the files of the staging directory:
\* the odd ones are plots
IsPlot(f) == f % 2 = 1

notJob == <<registry, cfg, disk, poolCap, pc, kind, size, dstPath, files, conn, hpc,
            failures, logged, released, tcp, cp, shut>>

ReadDirNothing(fs) == <<>>

\* the files of a set as os.ReadDir returns them, sorted by name
RECURSIVE ReadDir(_)
ReadDir(fs) ==
    IF fs = {} THEN <<>>
    ELSE LET f == CHOOSE x \in fs : \A y \in fs : x <= y
         IN  <<f>> \o ReadDir(fs \ {f})

\* enqueuePlotMove or enqueuePlotUpload of a file by the watcher
enqueue(q, f) == [q EXCEPT ![f] = @ + 1]

\* NewFsWatcher has been called and Run has started runLoop; any of the files
\* may be in the staging directory already
WatchInit ==
    /\ DistinctDirs
    /\ pl = [i \in 1..NumPaths |-> i]
    /\ available = [p \in Paths |-> TRUE]
    /\ usage = [p \in Paths |-> MaxFree]
    /\ maxThreads = DefaultMaxThreads
    /\ clientEnabled = FALSE
    /\ poolCap = getPoolSize(maxThreads, NumPaths, clientEnabled)
    /\ pc = [j \in Jobs |-> "queued"]
    /\ kind = [j \in Jobs |-> "none"]
    /\ size = [j \in Jobs |-> 0]
    /\ dstPath = [j \in Jobs |-> Nil]
    /\ srcFile = [j \in Jobs |-> FALSE]
    /\ tmpFile = [j \in Jobs |-> NoFile]
    /\ finalFile = [j \in Jobs |-> NoFile]
    /\ conn = [j \in Jobs |-> <<>>]
    /\ hpc = [j \in Jobs |-> "h_enqueue"]
    /\ failures = [j \in Jobs |-> {}]
    /\ evicted = {}
    /\ logged = [j \in Jobs |-> FALSE]
    /\ released = [j \in Jobs |-> 0]
    /\ NoConnection
    /\ ctxDone = FALSE
    /\ staged \in SUBSET Files
    /\ watching = FALSE
    /\ wclosed = FALSE
    /\ events = <<>>
    /\ runPc = "r_add"
    /\ listing = <<>>
    /\ loopPc = "l_select"
    /\ enq = [f \in Files |-> 0]
    /\ NoCopy
    \* Run: w.sower.wg.Add(1) before go w.runLoop(ctx)
    /\ wg = 1
    /\ serverEnabled = FALSE
    /\ NoShutdown

\* a file appears in the staging directory; fsnotify reports it when the
\* directory is watched
CreateFile(f) ==
    /\ f \notin staged
    /\ staged' = staged \cup {f}
    /\ events' = IF watching /\ ~wclosed THEN Append(events, f) ELSE events
    /\ UNCHANGED <<notJob, wg, ctxDone, watching, wclosed, runPc, listing, loopPc,
                   enq>>

\* the cancellation signal
Cancel ==
    /\ ~ctxDone
    /\ ctxDone' = TRUE
    /\ UNCHANGED <<notJob, wg, watch>>

\* Run: w.watcher.Add(stagingPath); on an error Run returns it
RunAdd ==
    /\ runPc = "r_add"
    /\ \E ok \in BOOLEAN :
        IF ok
        THEN /\ watching' = TRUE
             /\ runPc' = "r_readdir"
        ELSE /\ runPc' = "r_failed"
             /\ UNCHANGED watching
    /\ UNCHANGED <<notJob, wg, ctxDone, staged, wclosed, events, listing, loopPc,
                   enq>>

\* Run: os.ReadDir(stagingPath); on an error Run returns it
RunReadDir ==
    /\ runPc = "r_readdir"
    /\ \E ok \in BOOLEAN :
        IF ok
        THEN /\ listing' = ReadDir(staged)
             /\ runPc' = "r_list"
        ELSE /\ runPc' = "r_failed"
             /\ UNCHANGED listing
    /\ UNCHANGED <<notJob, wg, ctxDone, staged, watching, wclosed, events, loopPc,
                   enq>>

\* Run: one turn of the loop over the entries, which enqueues the plots; after
\* the last entry Run waits for the context
RunList ==
    /\ runPc = "r_list"
    /\ IF listing = <<>>
       THEN /\ runPc' = "r_wait"
            /\ UNCHANGED <<listing, enq, wg>>
       ELSE /\ listing' = Tail(listing)
            /\ enq' = IF IsPlot(Head(listing)) THEN enqueue(enq, Head(listing))
                      ELSE enq
            /\ wg' = IF IsPlot(Head(listing)) THEN wg + 1 ELSE wg
            /\ UNCHANGED runPc
    /\ UNCHANGED <<notJob, ctxDone, staged, watching, wclosed, events,
                   loopPc>>

\* Run: case <-ctx.Done(): w.watcher.Close(); return nil.  Close closes the
\* Events channel, and the events in it are dropped
RunDone ==
    /\ runPc = "r_wait"
    /\ ctxDone
    /\ wclosed' = TRUE
    /\ events' = <<>>
    /\ runPc' = "r_returned"
    /\ UNCHANGED <<notJob, wg, ctxDone, staged, watching, listing, loopPc, enq>>

\* runLoop: case e, ok := <-w.watcher.Events with ok true; a Create event of
\* a plot is enqueued
LoopEvent ==
    /\ loopPc = "l_select"
    /\ events # <<>>
    /\ events' = Tail(events)
    /\ enq' = IF IsPlot(Head(events)) THEN enqueue(enq, Head(events)) ELSE enq
    /\ wg' = IF IsPlot(Head(events)) THEN wg + 1 ELSE wg
    /\ UNCHANGED <<notJob, ctxDone, staged, watching, wclosed, runPc, listing,
                   loopPc>>

\* runLoop: the Events (or Errors) channel is closed: return
LoopClosed ==
    /\ loopPc = "l_select"
    /\ wclosed
    /\ loopPc' = "l_exited"
    /\ wg' = wg - 1
    /\ UNCHANGED <<notJob, ctxDone, staged, watching, wclosed, events, runPc,
                   listing, enq>>

\* runLoop: case <-ctx.Done(): return.  select takes any of its ready cases
LoopDone ==
    /\ loopPc = "l_select"
    /\ ctxDone
    /\ loopPc' = "l_exited"
    /\ wg' = wg - 1
    /\ UNCHANGED <<notJob, ctxDone, staged, watching, wclosed, events, runPc,
                   listing, enq>>

RunStep == RunAdd \/ RunReadDir \/ RunList \/ RunDone

LoopStep == LoopEvent \/ LoopClosed \/ LoopDone

WatchNext == (\E f \in Files : CreateFile(f)) \/ Cancel \/ RunStep \/ LoopStep

WatchSpec == WatchInit /\ [][WatchNext]_vars

\* Run and runLoop are goroutines, which keep running
WatchFairSpec ==
    /\ WatchInit
    /\ [][WatchNext]_vars
    /\ WF_vars(RunStep)
    /\ WF_vars(LoopStep)

----
(* io.Copy(cw, cr) through the cancellable adapters, step by step *)

MaxCopy == 5

\* the most one Read returns
BufSize == 2

notCopy == <<registry, cfg, disk, poolCap, pc, kind, size, dstPath, files, conn, hpc,
             failures, logged, released, tcp, watch, shut, wg>>

\* contextReader.Read: when the context is done it returns 0 bytes and the
\* error of the context, otherwise what the wrapped reader returns
ContextRead(done, r) == IF done THEN [n |-> 0, err |-> "ctx"] ELSE r

\* contextWriter.Write: when the context is done it returns 0 bytes and the
\* error of the context, otherwise what the wrapped writer returns
ContextWrite(done, w) == IF done THEN [n |-> 0, err |-> "ctx"] ELSE w

\* what a Read of the source can return: some of the bytes left, the end of
\* the stream when none is left, or an error
SourceReads ==
    IF cpSrc = 0
    THEN {[n |-> 0, err |-> "EOF"], [n |-> 0, err |-> "io"]}
    ELSE {[n |-> k, err |-> "nil"] : k \in 1..Min(BufSize, cpSrc)}
             \cup {[n |-> 0, err |-> "io"]}

\* what a Write of the buffer to the temp file can return: all of it, or
\* fewer bytes and an error
FileWrites ==
    {[n |-> cpBuf, err |-> "nil"]} \cup {[n |-> k, err |-> "io"] : k \in 0..(cpBuf - 1)}

\* a copy of any source is about to start
CopyInit ==
    /\ DistinctDirs
    /\ pl = [i \in 1..NumPaths |-> i]
    /\ available = [p \in Paths |-> TRUE]
    /\ usage = [p \in Paths |-> MaxFree]
    /\ maxThreads = DefaultMaxThreads
    /\ clientEnabled = FALSE
    /\ poolCap = getPoolSize(maxThreads, NumPaths, clientEnabled)
    /\ pc = [j \in Jobs |-> "queued"]
    /\ kind = [j \in Jobs |-> "none"]
    /\ size = [j \in Jobs |-> 0]
    /\ dstPath = [j \in Jobs |-> Nil]
    /\ srcFile = [j \in Jobs |-> FALSE]
    /\ tmpFile = [j \in Jobs |-> NoFile]
    /\ finalFile = [j \in Jobs |-> NoFile]
    /\ conn = [j \in Jobs |-> <<>>]
    /\ hpc = [j \in Jobs |-> "h_enqueue"]
    /\ failures = [j \in Jobs |-> {}]
    /\ evicted = {}
    /\ logged = [j \in Jobs |-> FALSE]
    /\ released = [j \in Jobs |-> 0]
    /\ NoConnection
    /\ NoWatcher
    /\ cpPc = "cp_read"
    /\ cpSrc \in 0..MaxCopy
    /\ cpBuf = 0
    /\ cpWritten = 0
    /\ wg = 0
    /\ serverEnabled = FALSE
    /\ NoShutdown

\* the cancellation signal, during or after the copy
CopyCancel ==
    /\ ~ctxDone
    /\ ctxDone' = TRUE
    /\ UNCHANGED <<notCopy, cp>>

\* io.Copy: nr, er := src.Read(buf), src being cr
CopyRead ==
    /\ cpPc = "cp_read"
    /\ \E under \in SourceReads :
        LET r == ContextRead(ctxDone, under)
        IN  /\ cpSrc' = cpSrc - r.n
            /\ cpBuf' = r.n
            /\ cpPc' = IF r.n > 0 THEN "cp_write"
                       ELSE IF r.err = "EOF" THEN "cp_ok" ELSE "cp_err"
    /\ UNCHANGED <<notCopy, ctxDone, cpWritten>>

CopyWriteUnwrapped ==
    /\ cpPc = "cp_write"
    /\ \E under \in FileWrites :
        /\ cpWritten' = cpWritten + under.n
        /\ cpPc' = IF under.err = "nil" THEN "cp_read" ELSE "cp_err"
    /\ UNCHANGED <<notCopy, ctxDone, cpSrc, cpBuf>>

\* io.Copy: nw, ew := dst.Write(buf[0:nr]), dst being cw; written += nw, and
\* the loop ends on an error or a short write
CopyWrite ==
    /\ cpPc = "cp_write"
    /\ \E under \in FileWrites :
        LET w == ContextWrite(ctxDone, under)
        IN  /\ cpWritten' = cpWritten + w.n
            /\ cpPc' = IF w.err = "nil" THEN "cp_read" ELSE "cp_err"
    /\ UNCHANGED <<notCopy, ctxDone, cpSrc, cpBuf>>

CopyNext == CopyCancel \/ CopyRead \/ CopyWrite

CopySpec == CopyInit /\ [][CopyNext]_vars

----
(* NewSower: the worker pool of every configuration *)

MaxThreadsIn == 3

\* the state NewSower is in after s.paths.Populate(destPaths), before the pool
\* is created: any --maxThreads, the TCP client enabled or not, and any number
\* of destination paths, none included
PoolInit ==
    /\ DistinctDirs
    /\ \E n \in 0..NumPaths : pl = [i \in 1..n |-> i]
    /\ available = [p \in Paths |-> TRUE]
    /\ usage \in [Paths -> FreeValues]
    /\ maxThreads \in 0..MaxThreadsIn
    /\ clientEnabled \in BOOLEAN
    /\ poolCap = NoPool
    /\ pc = [j \in Jobs |-> "queued"]
    /\ kind = [j \in Jobs |-> "none"]
    /\ size = [j \in Jobs |-> 0]
    /\ dstPath = [j \in Jobs |-> Nil]
    /\ srcFile = [j \in Jobs |-> FALSE]
    /\ tmpFile = [j \in Jobs |-> NoFile]
    /\ finalFile = [j \in Jobs |-> NoFile]
    /\ conn = [j \in Jobs |-> <<>>]
    /\ hpc = [j \in Jobs |-> "h_enqueue"]
    /\ failures = [j \in Jobs |-> {}]
    /\ evicted = {}
    /\ logged = [j \in Jobs |-> FALSE]
    /\ released = [j \in Jobs |-> 0]
    /\ NoConnection
    /\ NoWatcher
    /\ NoCopy
    /\ wg = 0
    /\ serverEnabled = FALSE
    /\ NoShutdown

\* NewSower: size := s.getPoolSize(); s.pool, err = ants.NewPool(size)
NewPool ==
    /\ poolCap = NoPool
    /\ poolCap' = getPoolSize(maxThreads, Len(pl), clientEnabled)
    /\ UNCHANGED <<registry, cfg, disk, aside, wg, tcp, pc, kind, size, dstPath, files,
                   conn, hpc, failures, logged, released>>

PoolSpec == PoolInit /\ [][NewPool]_vars

----
(* Shutdown: the cancellation signal, the run loops of the watcher and of   *)
(* the TCP server, and the wait on Sower.wg                                  *)

\* FsWatcher.Run has listed an empty staging directory and waits for the
\* context, TcpServer.Run (when the server is enabled) has opened its listener
\* and waits for the context; each has called wg.Add(1) for its runLoop.  No
\* file has been enqueued yet
ShutdownInit ==
    /\ DistinctDirs
    /\ pl = [i \in 1..NumPaths |-> i]
    /\ available = [p \in Paths |-> TRUE]
    /\ usage = [p \in Paths |-> MaxFree]
    /\ maxThreads = DefaultMaxThreads
    /\ clientEnabled = FALSE
    /\ poolCap = getPoolSize(maxThreads, NumPaths, clientEnabled)
    /\ pc = [j \in Jobs |-> "queued"]
    /\ kind = [j \in Jobs |-> "none"]
    /\ size = [j \in Jobs |-> 0]
    /\ dstPath = [j \in Jobs |-> Nil]
    /\ srcFile = [j \in Jobs |-> FALSE]
    /\ tmpFile = [j \in Jobs |-> NoFile]
    /\ finalFile = [j \in Jobs |-> NoFile]
    /\ conn = [j \in Jobs |-> <<>>]
    /\ hpc = [j \in Jobs |-> "h_enqueue"]
    /\ failures = [j \in Jobs |-> {}]
    /\ evicted = {}
    /\ logged = [j \in Jobs |-> FALSE]
    /\ released = [j \in Jobs |-> 0]
    /\ NoConnection
    /\ ctxDone = FALSE
    /\ staged = {}
    /\ watching = TRUE
    /\ wclosed = FALSE
    /\ events = <<>>
    /\ runPc = "r_wait"
    /\ listing = <<>>
    /\ loopPc = "l_select"
    /\ enq = [f \in Files |-> 0]
    /\ NoCopy
    /\ serverEnabled \in BOOLEAN
    /\ listening = serverEnabled
    /\ srvPc = IF serverEnabled THEN "s_accept" ELSE "s_none"
    /\ wg = 1 + (IF serverEnabled THEN 1 ELSE 0)
    /\ waitPc = "w_running"

notShut == <<registry, cfg, disk, poolCap, pc, kind, size, dstPath, files, conn,
             hpc, failures, logged, released, tcp, watch, cp, ctxDone, wg>>

\* TcpServer.Run: case <-ctx.Done(): listener.Close(); return nil
SrvRunDone ==
    /\ listening
    /\ ctxDone
    /\ listening' = FALSE
    /\ UNCHANGED <<notShut, srvPc, waitPc>>

\* TcpServer.runLoop: conn, err := listener.Accept() returns, with a
\* connection, or with an error (which is logged) once the listener is closed
SrvAccept ==
    /\ srvPc = "s_accept"
    /\ srvPc' = "s_handle"
    /\ UNCHANGED <<notShut, listening, waitPc>>

\* TcpServer.runLoop: go s.handleRequest(ctx, conn), and the for loop, which
\* has no return and no break, goes back to Accept
SrvHandle ==
    /\ srvPc = "s_handle"
    /\ srvPc' = "s_accept"
    /\ UNCHANGED <<notShut, listening, waitPc>>

\* after the cancellation the caller waits on the completion barrier
BeginWait ==
    /\ waitPc = "w_running"
    /\ ctxDone
    /\ waitPc' = "w_waiting"
    /\ UNCHANGED <<notShut, listening, srvPc>>

\* s.wg.Wait() returns when the counter is 0
WaitReturn ==
    /\ waitPc = "w_waiting"
    /\ wg = 0
    /\ waitPc' = "w_returned"
    /\ UNCHANGED <<notShut, listening, srvPc>>

\* enqueuePlotMove / enqueuePlotDownload when s.pool.Submit returns an error
\* (the pool is closed or overloaded): s.wg.Add(1) has run, no closure will
\* run, and the error is returned; handleRequest then writes the failure byte
SubmitFails(j) ==
    /\ pc[j] = "queued"
    /\ KindOf(j) = "download" => serverEnabled
    /\ wg' = wg + 1
    /\ pc' = [pc EXCEPT ![j] = "rejected"]
    /\ kind' = [kind EXCEPT ![j] = KindOf(j)]
    /\ conn' = [conn EXCEPT ![j] =
                   IF KindOf(j) = "download" THEN Append(@, 0) ELSE @]
    /\ hpc' = [hpc EXCEPT ![j] =
                  IF KindOf(j) = "download" THEN "h_done" ELSE @]
    /\ logged' = [logged EXCEPT ![j] = TRUE]
    /\ UNCHANGED <<registry, cfg, disk, aside, tcp, poolCap, size, dstPath, files,
                   failures, released>>

\* the closure of a file that is enqueued once; connections, and with them
\* downloads, exist when the server is enabled
ShutdownJobStep(j) ==
    /\ KindOf(j) = "download" => serverEnabled
    /\ JobStepOnce(j)

ShutdownNext ==
    \/ Cancel
    \/ RunDone
    \/ LoopClosed
    \/ LoopDone
    \/ SrvRunDone
    \/ SrvAccept
    \/ SrvHandle
    \/ BeginWait
    \/ WaitReturn
    \/ \E j \in Jobs : ShutdownJobStep(j)
    \/ \E j \in Jobs : SubmitFails(j)

ShutdownSpec == ShutdownInit /\ [][ShutdownNext]_vars

\* every goroutine keeps running, Accept returns once the listener is closed,
\* and the caller does wait after the cancellation
ShutdownFairSpec ==
    /\ ShutdownInit
    /\ [][ShutdownNext]_vars
    /\ \A j \in Jobs : WF_vars(ShutdownJobStep(j))
    /\ WF_vars(RunDone)
    /\ WF_vars(LoopClosed \/ LoopDone)
    /\ WF_vars(SrvRunDone)
    /\ WF_vars(~listening /\ SrvAccept)
    /\ WF_vars(SrvHandle)
    /\ WF_vars(BeginWait)
    /\ WF_vars(WaitReturn)

----
(* Properties *)

InList(l, p) == \E i \in 1..Len(l) : l[i] = p

HasByte(j, b) == \E i \in 1..Len(conn[j]) : conn[j][i] = b

\* FirstAvailable has returned dstPath to the job, and the job has not called
\* SetAvailable on it yet
Holding(j) ==
    /\ pc[j] \in {"gd_check", "gd_remove", "gd_tune", "create", "copy", "rename",
                  "remove_src", "release", "deferred"}
    /\ released[j] = 0

Committed(j) == finalFile[j] # NoFile

\* C1: no destination volume is held by two jobs at the same time: a volume
\* that FirstAvailable has returned to a job is not returned to another job
\* before its holder has released it
C1_NoVolumeHeldTwice ==
    \A j1 \in Jobs, j2 \in Jobs :
        (j1 # j2 /\ Holding(j1) /\ Holding(j2)) => dstPath[j1] # dstPath[j2]

\* C2: a move job deletes its source file only after the temp file has been
\* renamed to the final name: once the closure has started, the source file
\* is there unless the file is committed
C2_SourceKeptUnlessCommitted ==
    \A j \in Jobs :
        (kind[j] = "move" /\ pc[j] # "queued") => (srcFile[j] \/ Committed(j))

C4_ReleaseAtMostOnce ==
    \A j \in Jobs : released[j] <= 1

\* getDestinationPath has returned a volume to the job (the job is past it, or
\* has ended otherwise than on the open failure that precedes it)
Obtained(j) ==
    \/ pc[j] \in {"create", "copy", "rename", "remove_src", "release", "deferred"}
    \/ pc[j] = "done" /\ "open_failed" \notin failures[j]

\* C5: a job that has obtained a volume from getDestinationPath eventually
\* releases it, whichever way the job ends: no job stays forever, running or
\* ended, with a volume it obtained and has not released
C5_ClaimEventuallyReleased ==
    \A j \in Jobs : []<>(~(Obtained(j) /\ released[j] = 0))

C5_Witness ==
    /\ \E j \in Jobs : pc[j] = "done" /\ released[j] >= 1 /\ "create_failed" \in failures[j]
    /\ \E j \in Jobs : pc[j] = "done" /\ released[j] >= 1 /\ "rename_failed" \in failures[j]

\* the number of success bytes on the connection
SuccessBytes(j) == Cardinality({i \in 1..Len(conn[j]) : conn[j][i] = 1})

C7_ResultAfterOutcome ==
    \A j \in Jobs :
        conn[j] # <<>> => (Committed(j) \/ failures[j] # {})

\* C8: the success byte is on the connection only if the file is committed
C8_SuccessOnlyIfCommitted ==
    \A j \in Jobs : HasByte(j, 1) => Committed(j)

C10_EvictedIsGone ==
    /\ \A p \in evicted : ~InList(pl, p)
    /\ Len(pl) = NumPaths - Cardinality(evicted)
    /\ \A j \in Jobs : pc[j] = "gd_check" => dstPath[j] \notin evicted

\* C11: each eviction is followed by a pool capacity equal to the sizing
\* formula applied to the reduced volume count: when getDestinationPath has
\* removed a volume and tuned the pool, the capacity is getPoolSize of the
\* volumes that have not been removed
C11_EvictionResizesPool ==
    [][\A j \in Jobs :
          (pc[j] = "gd_tune" /\ pc'[j] # "gd_tune")
          => poolCap' = getPoolSize(maxThreads,
                                    NumPaths - Cardinality(evicted),
                                    clientEnabled)]_vars

\* the pool sizing policy: the volume count when configuredMax is 0, the
\* lesser of configuredMax and the volume count otherwise, and 1 at least
SizingPolicy(configuredMax, volumeCount) ==
    Max(1, IF configuredMax = 0 THEN volumeCount
           ELSE Min(configuredMax, volumeCount))

C13_EvictInsteadOfWrite ==
    [][/\ \A j \in Jobs :
             /\ (pc[j] = "gd_check" /\ pc'[j] = "create")
                => size[j] < usage[dstPath[j]]
             /\ (pc[j] = "gd_check" /\ pc'[j] # "gd_check" /\ pc'[j] # "create")
                => pc'[j] = "gd_remove"
             /\ (pc[j] \in {"gd_remove", "gd_tune"} /\ pc'[j] # pc[j])
                => /\ dstPath[j] \in evicted'
                   /\ pc'[j] \in {"gd_tune", "gd_first"}
       /\ \A p \in evicted' : ~available'[p]]_vars

\* handleRequest has read the whole header of the connection
HeaderRead == hpc[WireJob] \in {"h_enqueue", "h_result"} \/ pc[WireJob] # "queued"

\* C14: for a name of at most 255 bytes that ends with the plot suffix and any
\* size, readFileName and readFileSize decode the header the client wrote to
\* the same name and the same size, and do not fail on a header that was
\* written whole
C14_HeaderRoundTrip ==
    (Len(cname) <= 255 /\ HasSuffix(cname, PlotSuffix)) =>
        /\ hpc[WireJob] # "h_name" /\ fileName # <<>> => fileName = cname
        /\ HeaderRead => (fileName = cname /\ size[WireJob] = csize)
        /\ (Len(wire) = 1 + Len(cname) + 8 /\ hpc[WireJob] = "h_done")
              => HeaderRead

C14_Witness ==
    /\ Len(cname) = 255
    /\ csize = 2147483647
    /\ HeaderRead
    /\ fileName = cname
    /\ size[WireJob] = csize

\* the name on the connection does not end with the plot suffix (the name the
\* client was given lacks it, or is longer than the length byte can tell), or
\* the client has gone before it wrote the whole header
BadRequest ==
    \/ ~HasSuffix(cname, PlotSuffix)
    \/ Len(cname) > 255
    \/ clientClosed /\ Len(wire) < 1 + Len(cname) + 8

\* C15: a request whose name does not end with the plot suffix, or whose
\* header cannot be read, is not enqueued: no closure runs for it, no volume is
\* claimed, no temp or final file is created, nothing but the failure byte is
\* written to the connection, and handleRequest returns only after writing it
C15_BadRequestRejected ==
    BadRequest =>
        /\ pc[WireJob] = "queued"
        /\ kind[WireJob] = "none"
        /\ dstPath[WireJob] = Nil
        /\ \A p \in Paths : available[p]
        /\ tmpFile[WireJob] = NoFile
        /\ finalFile[WireJob] = NoFile
        /\ hpc[WireJob] \in {"h_name", "h_size", "h_done"}
        /\ (~HasSuffix(cname, PlotSuffix) \/ Len(cname) > 255)
              => (hpc[WireJob] # "h_size" /\ fileName = <<>>)
        /\ conn[WireJob] = IF hpc[WireJob] = "h_done" THEN <<0>> ELSE <<>>

C15_Witness ==
    /\ ~HasSuffix(cname, PlotSuffix)
    /\ Len(wire) = 1 + Len(cname) + 8
    /\ hpc[WireJob] = "h_done"
    /\ conn[WireJob] = <<0>>
    /\ cres = <<1, 0>>
    /\ cpc = "c_err"

\* C16: WritePlot returns success only when readResult has read a result byte
\* and the byte is 1, the first byte the server wrote; it returns an error
\* when the byte is 0 or when the connection ended before a byte arrived
C16_ClientResult ==
    /\ cpc = "c_ok" =>
          /\ cres = <<1, 1>>
          /\ conn[WireJob] # <<>>
          /\ conn[WireJob][1] = 1
    /\ (cpc = "c_err" /\ cres[1] = 1) => conn[WireJob][1] = 0

C16_Witness ==
    /\ cpc = "c_ok"
    /\ cres = <<1, 1>>
    /\ finalFile[WireJob] = size[WireJob]

\* C17: once every volume has been removed from the registry, a job that is
\* in getDestinationPath stays in it: FirstAvailable returns nil, the job
\* sleeps and asks again, and it never goes on to write, to report a failure
\* or to end
C17_EmptyRegistryBlocks ==
    [][\A j \in Jobs :
          (evicted = Paths /\ pc[j] \in {"gd_first", "gd_sleep"})
          => /\ pc'[j] \in {"gd_first", "gd_sleep"}
             /\ HasByte(j, 0)' => HasByte(j, 0)
             /\ tmpFile'[j] = NoFile]_vars

C19_NoEnqueueAfterLoopExit ==
    [][/\ loopPc = "l_exited" => enq' = enq
       /\ (loopPc # "l_exited" /\ loopPc' = "l_exited") => ctxDone
       /\ (runPc # "r_returned" /\ runPc' = "r_returned")
             => (ctxDone /\ wclosed')]_vars

NoJobInFlight == \A j \in Jobs : pc[j] \in {"queued", "done", "rejected"}

\* s.pool.Submit has returned nil for every job
NoSubmitFailed == \A j \in Jobs : pc[j] # "rejected"

\* C21: after the cancellation the wait on the completion barrier returns
\* only when every submitted job has returned, completed or aborted, and,
\* every Submit having succeeded, it does return once the jobs in flight have
\* finished
C21_BarrierDrainsAndReturns ==
    /\ [][(waitPc # "w_returned" /\ waitPc' = "w_returned")
             => (ctxDone /\ NoJobInFlight)]_vars
    /\ (waitPc = "w_waiting" /\ NoJobInFlight /\ NoSubmitFailed)
          ~> (waitPc = "w_returned" \/ ~NoJobInFlight \/ ~NoSubmitFailed)

\* C22: the uploading client has deleted its source file only if the server
\* has committed the complete file, the declared number of bytes under the
\* final name; while the job of the server has failed or has not finished,
\* the source file is there
C22_UploadSourceKeptUnlessCommitted ==
    ~usrc => (Committed(WireJob) /\ finalFile[WireJob] = csize)

\* the closure of the job takes the step it is at
Leaves(j, at) == pc[j] = at /\ pc'[j] # at

\* C23: within a job create-temp, copy, verify, rename and then
\* acknowledge / delete-source happen in that order, and a failed step keeps
\* every later step from running: no copy after a failed create, no rename
\* after a failed copy or a failed size check, no deletion of the source and
\* no success byte of the closure unless the rename has succeeded
C23_StepsInOrderShortCircuit ==
    [][\A j \in Jobs :
          /\ Leaves(j, "copy") => "create_failed" \notin failures[j]
          /\ Leaves(j, "rename") => failures[j] = {}
          /\ (srcFile[j] /\ ~srcFile'[j]) => (failures[j] = {} /\ Committed(j))
          /\ (pc[j] \in {"create", "copy", "rename"}
                /\ SuccessBytes(j)' > SuccessBytes(j)
                /\ hpc'[j] = hpc[j])
             => Committed(j)]_vars

\* C24: when os.Create of the temp file fails, after the volume has been
\* claimed, the job is aborted there: its next step is the release of the
\* volume, and no copy, rename, success byte of the closure or deletion of the
\* source follows
C24_CreateFailureAborts ==
    [][\A j \in Jobs :
          /\ (Leaves(j, "create") /\ "create_failed" \in failures'[j])
             => pc'[j] = "deferred"
          /\ ("create_failed" \in failures[j] /\ pc[j] # "done")
             => /\ pc[j] = "deferred"
                /\ pc'[j] \in {"deferred", "done"}
                /\ pc'[j] = "done" => released'[j] = 1
                /\ srcFile'[j] = srcFile[j]
                /\ finalFile'[j] = NoFile
                /\ hpc'[j] = hpc[j] => conn'[j] = conn[j]]_vars

\* C25: when os.Rename of the temp file fails the job is aborted: the source
\* is not deleted, the closure has written no success byte, the volume is
\* released, and the temp file is left as it was
C25_RenameFailureAborts ==
    [][\A j \in Jobs :
          /\ (Leaves(j, "rename") /\ "rename_failed" \in failures'[j])
             => /\ pc'[j] = "deferred"
                /\ tmpFile'[j] = tmpFile[j]
                /\ SuccessBytes(j) <= (IF hpc[j] = "h_done" THEN 1 ELSE 0)
          /\ ("rename_failed" \in failures[j] /\ pc[j] # "done")
             => /\ srcFile'[j] = srcFile[j]
                /\ tmpFile'[j] = tmpFile[j]
                /\ pc'[j] = "done" => released'[j] >= 1]_vars

\* C26: when os.Open or src.Stat of the source fails the job ends there,
\* without any interaction with the registry: it claims, removes and releases
\* no volume, and the list, the availability flags and the pool are as they
\* were
C26_OpenFailureLeavesRegistry ==
    [][\A j \in Jobs :
          "open_failed" \in failures'[j]
          => /\ pc'[j] = "done"
             /\ dstPath'[j] = Nil
             /\ released'[j] = 0
             /\ tmpFile'[j] = NoFile
             /\ finalFile'[j] = NoFile
             /\ pc[j] = "open" =>
                   /\ registry' = registry
                   /\ poolCap' = poolCap]_vars

C26_Witness ==
    \E j \in Jobs :
        /\ pc[j] = "done"
        /\ "open_failed" \in failures[j]
        /\ srcFile[j]
        /\ \E p \in Paths : ~available[p]
        /\ evicted # {}

\* C27: the server writes at most one result byte to a connection: the
\* connection handler and the save job together never send two
C27_OneResultByte ==
    \A j \in Jobs : Len(conn[j]) <= 1

\* the client has written the header and the whole body, has its connection
\* open and waits for the result byte, and the closure of the server is at
\* its copy
ClientWaitsForResult == cpc = "c_result" /\ pc[WireJob] = "copy"

\* C28: the copy of the server takes the declared number of bytes and then
\* ends, without waiting for the client to close its connection: while the
\* client waits for the result byte with the connection open, the copy can
\* return without an error
C28_CopyEndsAtDeclaredSize ==
    ClientWaitsForResult =>
        ENABLED (/\ WireCopyDownload(WireJob)
                 /\ "copy_error" \notin failures'[WireJob])

\* no closure is between s.paths.Remove and s.pool.Tune
NoEvictionUnderWay == \A j \in Jobs : pc[j] \notin {"gd_remove", "gd_tune"}

\* C29: once every job that was evicting a volume has finished its evict and
\* resize step, whatever the interleaving of those steps, the pool capacity
\* is getPoolSize of the number of volumes the registry is left with, not of
\* an earlier, larger number
C29_ConcurrentEvictionsResize ==
    NoEvictionUnderWay =>
        poolCap = getPoolSize(maxThreads, NumPaths - Cardinality(evicted),
                              clientEnabled)

\* the jobs that hold the volume
Holders(p) == {j \in Jobs : Holding(j) /\ dstPath[j] = p}

\* C30: in every reachable state a volume of the registry is marked
\* unavailable if and only if exactly one job holds it, and the number of
\* unavailable volumes of the registry is the number of jobs that hold a
\* volume
C30_UnavailableIffHeld ==
    /\ \A p \in Paths :
          InList(pl, p) => (~available[p] <=> Cardinality(Holders(p)) = 1)
    /\ Cardinality({p \in Paths : InList(pl, p) /\ ~available[p]})
          = Cardinality({j \in Jobs : Holding(j)})

\* C31: each staging file is enqueued at most once: a file created after the
\* directory was added to the watcher and before the directory was listed is
\* not enqueued by both the notification and the listing
C31_EnqueuedAtMostOnce ==
    \A f \in Files : enq[f] <= 1

\* the goroutines that have called wg.Add(1) and not yet wg.Done(): the
\* closures the pool has accepted and that have not returned, and the run
\* loops of the watcher and of the TCP server
Outstanding ==
    Cardinality({j \in Jobs : pc[j] \notin {"queued", "done", "rejected"}})
        + (IF loopPc = "l_select" THEN 1 ELSE 0)
        + (IF srvPc \in {"s_accept", "s_handle"} THEN 1 ELSE 0)

\* C32: the counter of the wait group is always the number of jobs the pool
\* has accepted and that have not finished (and of the run loops): a failed
\* Submit leaves the counter where it was before the enqueue call
C32_CounterIsOutstanding ==
    wg = Outstanding

\* C33: once the cancellation has closed the listener, the accept loop of the
\* TCP server terminates: it is eventually neither in Accept nor about to
\* start a handler
C33_AcceptLoopTerminates ==
    (serverEnabled /\ ctxDone /\ ~listening)
        ~> (srvPc \notin {"s_accept", "s_handle"})

\* the closure is inside getDestinationPath
InSelection(j) ==
    pc[j] \in {"gd_first", "gd_sleep", "gd_check", "gd_remove", "gd_tune"}

\* a path of the list has more free space than the file of the job needs
Fits(j) == \E i \in 1..Len(pl) : HasSpace(size[j], usage[pl[i]])

\* C34: with every closure that has been started running on, a job that is
\* selecting a destination while the list keeps a path that fits its file
\* eventually leaves getDestinationPath and ends, committed or aborted
C34_SelectionEnds ==
    \A j \in Jobs :
        [](InSelection(j) => Fits(j)) => (InSelection(j) ~> pc[j] = "done")

----
(* The pathList by itself: Populate as NewSower calls it, then the calls of  *)
(* the closures in any order, while the free space of the directories changes *)

\* cfg.DestinationPaths: any directories, a directory may be named twice
InputPaths ==
    UNION {[1..n -> Dirs] : n \in 0..NumPaths}

PopulateOnce(l, av, u, paths, free) ==
    LET n == Len(l)
        seen == {i \in 1..Len(paths) : \A k \in 1..(i - 1) : paths[k] # paths[i]}
        new == (n + 1)..(n + Cardinality(seen))
        nth(i) == CHOOSE k \in seen : Cardinality({m \in seen : m < k}) = i - 1
    IN  <<l \o [i \in 1..Cardinality(seen) |-> n + i],
          [p \in Paths |-> IF p \in new THEN TRUE ELSE av[p]],
          [p \in Paths |-> IF p \in new THEN free[paths[nth(p - n)]] ELSE u[p]]>>

\* pathList.Populate: for each p of paths, in order, append
\* &path{name: p, usage: du.NewDiskUsage(p), available: true}
Populate(l, av, u, paths, free) ==
    LET n == Len(l)
        new == (n + 1)..(n + Len(paths))
    IN  <<l \o [i \in 1..Len(paths) |-> n + i],
          [p \in Paths |-> IF p \in new THEN TRUE ELSE av[p]],
          [p \in Paths |-> IF p \in new THEN free[paths[p - n]] ELSE u[p]]>>

\* s.paths = new(pathList), before Populate; no path object exists
ListInit ==
    /\ destinationPaths \in InputPaths
    /\ disk \in [Dirs -> FreeValues]
    /\ pl = <<>>
    /\ available = [p \in Paths |-> FALSE]
    /\ usage = [p \in Paths |-> 0]
    /\ maxThreads = DefaultMaxThreads
    /\ clientEnabled = FALSE
    /\ poolCap = NoPool
    /\ pc = [j \in Jobs |-> "queued"]
    /\ kind = [j \in Jobs |-> "none"]
    /\ size = [j \in Jobs |-> 0]
    /\ dstPath = [j \in Jobs |-> Nil]
    /\ srcFile = [j \in Jobs |-> FALSE]
    /\ tmpFile = [j \in Jobs |-> NoFile]
    /\ finalFile = [j \in Jobs |-> NoFile]
    /\ conn = [j \in Jobs |-> <<>>]
    /\ hpc = [j \in Jobs |-> "h_enqueue"]
    /\ failures = [j \in Jobs |-> {}]
    /\ evicted = {}
    /\ logged = [j \in Jobs |-> FALSE]
    /\ released = [j \in Jobs |-> 0]
    /\ NoConnection
    /\ NoWatcher
    /\ NoCopy
    /\ wg = 0
    /\ serverEnabled = FALSE
    /\ NoShutdown

notList == <<maxThreads, clientEnabled, serverEnabled, aside, wg, tcp, pc,
             kind, size, dstPath, files, conn, hpc, failures, logged,
             released>>

\* NewSower: s.paths.Populate(destPaths)
ListPopulate ==
    /\ poolCap = NoPool
    /\ pl = <<>>
    /\ destinationPaths # <<>>
    /\ LET r == Populate(pl, available, usage, destinationPaths, disk)
       IN  /\ pl' = r[1]
           /\ available' = r[2]
           /\ usage' = r[3]
    /\ UNCHANGED <<notList, destinationPaths, disk, poolCap, evicted>>

\* NewSower: the pool is created after Populate
ListNewPool ==
    /\ Len(pl) = Len(destinationPaths)
    /\ NewPool

\* s.paths.FirstAvailable()
ListFirstAvailable ==
    /\ poolCap # NoPool
    /\ LET sorted == Sort(pl, usage)
           p == FirstAvailable(sorted, available)
       IN  /\ pl' = sorted
           /\ available' = IF p = Nil THEN available
                           ELSE [available EXCEPT ![p] = FALSE]
    /\ UNCHANGED <<notList, destinationPaths, disk, poolCap, usage, evicted>>

\* s.paths.SetAvailable(path, true), the call of every caller, for a path of
\* the list: p.usage = du.NewDiskUsage(p.name)
ListSetAvailable(p) ==
    /\ poolCap # NoPool
    /\ InList(pl, p)
    /\ LET r == Update(pl, available, usage, p, TRUE, disk[nameOf(p)])
       IN  /\ pl' = r[1]
           /\ available' = r[2]
           /\ usage' = r[3]
    /\ UNCHANGED <<notList, destinationPaths, disk, poolCap, evicted>>

\* s.paths.Remove(path), for a path of the list
ListRemove(p) ==
    /\ poolCap # NoPool
    /\ InList(pl, p)
    /\ pl' = Remove(pl, p)
    /\ evicted' = evicted \cup {p}
    /\ UNCHANGED <<notList, destinationPaths, disk, poolCap, available, usage>>

\* files are written to and deleted from a directory, by this process or by
\* another
DiskChanges(d, f) ==
    /\ disk[d] # f
    /\ disk' = [disk EXCEPT ![d] = f]
    /\ UNCHANGED <<notList, destinationPaths, registry, poolCap>>

ListNext ==
    \/ ListPopulate
    \/ ListNewPool
    \/ ListFirstAvailable
    \/ \E p \in Paths : ListSetAvailable(p)
    \/ \E p \in Paths : ListRemove(p)
    \/ \E d \in Dirs, f \in FreeValues : DiskChanges(d, f)

ListSpec == ListInit /\ [][ListNext]_vars

\* C35: when SetAvailable makes a path available again its recorded free
\* space becomes what the storage layer reports for its directory at that
\* time, and the recorded free space of a path changes in no other step
C35_FreeSpaceRefreshedAtRelease ==
    [][\A p \in Paths :
         InList(pl, p) =>
            /\ (~available[p] /\ available'[p]) => usage'[p] = disk[nameOf(p)]
            /\ usage'[p] # usage[p] =>
                  available'[p] /\ usage'[p] = disk[nameOf(p)]]_vars

C35_Witness ==
    \E p, q \in Paths :
        /\ p # q
        /\ InList(pl, p)
        /\ InList(pl, q)
        /\ nameOf(p) = nameOf(q)
        /\ available[p]
        /\ ~available[q]
        /\ usage[p] = disk[nameOf(p)]
        /\ usage[q] # usage[p]

----
(* File names: filepath.Join of the destination directory and the name of    *)
(* the request                                                               *)

\* the elements of a path, the text between its separators ('/')
Elements(b) ==
    LET seps == {i \in 1..Len(b) : b[i] = 47}
        n == Cardinality(seps)
        nthSep(k) == CHOOSE i \in seps : Cardinality({m \in seps : m < i}) = k - 1
        first(k) == IF k = 1 THEN 1 ELSE nthSep(k - 1) + 1
        last(k) == IF k = n + 1 THEN Len(b) ELSE nthSep(k) - 1
    IN  [k \in 1..(n + 1) |-> SubSeq(b, first(k), last(k))]

\* filepath.Clean on the elements of a rooted path: empty elements and "."
\* are dropped, ".." drops the element before it
RECURSIVE cleanFrom(_, _, _)
cleanFrom(els, i, acc) ==
    IF i > Len(els) THEN acc
    ELSE IF els[i] = <<>> \/ els[i] = <<46>> THEN cleanFrom(els, i + 1, acc)
    ELSE IF els[i] = <<46, 46>>
         THEN cleanFrom(els, i + 1,
                        IF acc = <<>> THEN acc ELSE SubSeq(acc, 1, Len(acc) - 1))
    ELSE cleanFrom(els, i + 1, Append(acc, els[i]))

\* filepath.Join(dir, name), dir given by its elements
Join(dir, name) == cleanFrom(dir \o Elements(name), 1, <<>>)

\* dstPath.name: the directory "/m/<p>" of a path
DirOf(p) == <<<<109>>, <<48 + p>>>>

\* the file is an entry of the directory itself
DirectlyInside(dir, file) ==
    /\ Len(file) = Len(dir) + 1
    /\ SubSeq(file, 1, Len(dir)) = dir

\* C36: the temp file and the final file of a download are entries of the
\* claimed destination directory itself, whatever name the request carries
C36_CommittedInsideDestination ==
    (tmpFile[WireJob] # NoFile \/ finalFile[WireJob] # NoFile) =>
        \A p \in Paths : DirectlyInside(DirOf(p), Join(DirOf(p), fileName))

\* C37: the length byte the client writes is the number of filename bytes it
\* writes after it, for a name of any length
C37_LengthByteCountsName ==
    Len(wire) >= 1 + Len(cname) => wire[1] = Len(cname)

\* C38: once the server has written a result byte to an accepted connection
\* it eventually closes the connection
C38_ConnectionClosedAfterResult ==
    (conn[WireJob] # <<>>) ~> ~connOpen

\* the list without the path, the other paths in their order
Without(l, p) == SelectSeq(l, LAMBDA x : x # p)

\* C39: Remove deletes exactly the given path and leaves the flags, the
\* recorded free space and the order of the others as they are, and a
\* SetAvailable that makes a path available changes the flag of that path only
C39_RemoveAndSetAvailableFrames ==
    [][\A p \in Paths :
         /\ (p \notin evicted /\ p \in evicted') =>
               /\ pl' = Without(pl, p)
               /\ available' = available
               /\ usage' = usage
         /\ (InList(pl, p) /\ ~available[p] /\ available'[p]) =>
               /\ pl' = pl
               /\ usage' = usage
               /\ \A q \in Paths \ {p} : available'[q] = available[q]]_vars

\* C40: Populate on the empty list puts one path per entry of its input into
\* the list, in the order of the input, each available and with the free
\* space of its directory; a directory named twice gives two paths
C40_PopulateOnePerInput ==
    [][(pl = <<>> /\ pl' # <<>>) =>
          /\ Len(pl') = Len(destinationPaths)
          /\ \A i \in 1..Len(pl') :
                /\ pl'[i] = i
                /\ available'[pl'[i]]
                /\ usage'[pl'[i]] = disk[destinationPaths[i]]]_vars

C40_Witness ==
    /\ poolCap = NoPool
    /\ Len(pl) = NumPaths
    /\ \A i \in 1..Len(pl) : destinationPaths[i] = destinationPaths[1]
    /\ \A i \in 1..Len(pl) : available[pl[i]]

====
